---- MODULE Spec2Model ----
(***************************************************************************)
(* PartialDate (partial_date/fields.py): a calendar date with a precision  *)
(* tag, its parser, its formatter, its comparisons, and the field adapter  *)
(* that stores it in a date-time column.                                   *)
(*                                                                         *)
(* Text is modelled as a sequence of one-character strings, so that the    *)
(* regular expressions, int() and strftime() are computed character by     *)
(* character.                                                              *)
(***************************************************************************)
EXTENDS Integers, Sequences, FiniteSets, TLC

VARIABLES a, b, c, db, op, outcome, arg, ret

vars == <<a, b, c, db, op, outcome, arg, ret>>

-----------------------------------------------------------------------------
(* Bounds of the model *)

\* precision arguments tried: -1 .. MaxPrecisionInput, and 99
MaxPrecisionInput == 4
\* whitespace characters between a circa prefix and the year: 0 .. MaxSpaces
MaxSpaces == 1
\* leading zeros written before a year: 0 .. MaxLeadingZeros
MaxLeadingZeros == 1

-----------------------------------------------------------------------------
(* class PartialDate: precision tags *)

YEAR == 0
MONTH == 1
DAY == 2
CIRCA == 3

-----------------------------------------------------------------------------
(* Characters and text *)

Digits == <<"0", "1", "2", "3", "4", "5", "6", "7", "8", "9">>

\* \d (the ASCII digits)
IsDigit(ch) == \E i \in 1..10 : Digits[i] = ch

\* \s (space, tab and newline)
IsSpace(ch) == ch \in {" ", "\t", "\n"}

\* re.IGNORECASE on the letters of the circa pattern
Lower(ch) ==
    CASE ch = "C" -> "c"
      [] ch = "I" -> "i"
      [] ch = "R" -> "r"
      [] ch = "A" -> "a"
      [] OTHER -> ch

DigitVal(ch) == (CHOOSE i \in 1..10 : Digits[i] = ch) - 1

\* int(v) on a string of decimal digits
RECURSIVE IntOf(_)
IntOf(s) ==
    IF s = <<>> THEN 0
    ELSE 10 * IntOf(SubSeq(s, 1, Len(s) - 1)) + DigitVal(s[Len(s)])

\* decimal digits of a natural number, no padding
RECURSIVE ToDigits(_)
ToDigits(n) ==
    IF n < 10 THEN <<Digits[n + 1]>>
    ELSE ToDigits(n \div 10) \o <<Digits[(n % 10) + 1]>>

\* zero padding to a width
RECURSIVE ZeroPad(_, _)
ZeroPad(t, w) == IF Len(t) >= w THEN t ELSE ZeroPad(<<"0">> \o t, w)

-----------------------------------------------------------------------------
(* datetime.date *)

Date(y, m, d) == [year |-> y, month |-> m, day |-> d]

\* Python's None where a date is expected
NoDate == Date(0, 0, 0)

IsLeap(y) == y % 4 = 0 /\ (y % 100 # 0 \/ y % 400 = 0)

DaysInMonth(y, m) ==
    IF m = 2 THEN (IF IsLeap(y) THEN 29 ELSE 28)
    ELSE IF m \in {4, 6, 9, 11} THEN 30 ELSE 31

\* datetime.date(year, month, day) raises ValueError unless this holds
IsValidDate(y, m, d) ==
    /\ y >= 1 /\ y <= 9999
    /\ m >= 1 /\ m <= 12
    /\ d >= 1 /\ d <= DaysInMonth(y, m)

\* date.replace(month=..., day=...): a NEW date, the receiver is unchanged
Replace(d, m, dd) == Date(d.year, m, dd)

\* a comparison of dates that looks at the year only
DateGeYearOnly(x, y) == x.year >= y.year

\* date >= date, date > date
DateGe(x, y) ==
    \/ x.year > y.year
    \/ x.year = y.year /\ x.month > y.month
    \/ x.year = y.year /\ x.month = y.month /\ x.day >= y.day

DateGt(x, y) == DateGe(x, y) /\ x # y

\* date.strftime(fmt); %Y of a year below 1000 is padded to four digits by
\* some C libraries and not by others
RECURSIVE Strftime(_, _, _)
Strftime(d, fmt, padYear) ==
    IF fmt = <<>> THEN <<>>
    ELSE IF fmt[1] = "%" /\ Len(fmt) >= 2
    THEN (CASE fmt[2] = "Y" ->
                 IF padYear THEN ZeroPad(ToDigits(d.year), 4) ELSE ToDigits(d.year)
            [] fmt[2] = "m" -> ZeroPad(ToDigits(d.month), 2)
            [] fmt[2] = "d" -> ZeroPad(ToDigits(d.day), 2)
            [] OTHER -> <<fmt[1], fmt[2]>>)
         \o Strftime(d, SubSeq(fmt, 3, Len(fmt)), padYear)
    ELSE <<fmt[1]>> \o Strftime(d, Tail(fmt), padYear)

-----------------------------------------------------------------------------
(* The two regular expressions *)

\* $ : at the end of the string, or just before a final newline
AtEnd(s, i) == i = Len(s) + 1 \/ (i = Len(s) /\ s[i] = "\n")

RECURSIVE DigitRun(_, _)
DigitRun(s, i) ==
    IF i <= Len(s) /\ IsDigit(s[i]) THEN 1 + DigitRun(s, i + 1) ELSE 0

RECURSIVE SpaceRun(_, _)
SpaceRun(s, i) ==
    IF i <= Len(s) /\ IsSpace(s[i]) THEN 1 + SpaceRun(s, i + 1) ELSE 0

\* (?:-(\d{1,2}))? at position i, taking n digits; n = 0: the group is skipped
GroupOk(s, i, n) ==
    \/ n = 0
    \/ /\ i + n <= Len(s)
       /\ s[i] = "-"
       /\ \A k \in (i + 1)..(i + n) : IsDigit(s[k])

GroupEnd(i, n) == IF n = 0 THEN i ELSE i + n + 1

NoMatch == [matched |-> FALSE, year |-> <<>>, month |-> <<>>, day |-> <<>>]

\* One way partial_date_re can take the string: t[1] digits of year, t[2]
\* digits of month and t[3] digits of day (0: the group is skipped), then $
PlainTryOk(s, t) ==
    /\ GroupOk(s, 1 + t[1], t[2])
    /\ GroupOk(s, GroupEnd(1 + t[1], t[2]), t[3])
    /\ AtEnd(s, GroupEnd(GroupEnd(1 + t[1], t[2]), t[3]))

PlainTries(s) ==
    {t \in (1..DigitRun(s, 1)) \X (0..2) \X (0..2) : PlainTryOk(s, t)}

\* The engine is greedy and backtracks: a longer year before a shorter one, a
\* month group before none, a day group before none, two digits before one.
PlainBefore(t, u) ==
    \/ t[1] > u[1]
    \/ t[1] = u[1] /\ t[2] > u[2]
    \/ t[1] = u[1] /\ t[2] = u[2] /\ t[3] >= u[3]

PlainGroups(s, t) ==
    [matched |-> TRUE,
     year |-> SubSeq(s, 1, t[1]),
     month |-> IF t[2] = 0 THEN <<>> ELSE SubSeq(s, t[1] + 2, t[1] + 1 + t[2]),
     day |-> IF t[3] = 0 THEN <<>>
             ELSE SubSeq(s, GroupEnd(1 + t[1], t[2]) + 1,
                            GroupEnd(1 + t[1], t[2]) + t[3])]

PlainFirst(s, tries) ==
    IF tries = {} THEN NoMatch
    ELSE PlainGroups(s, CHOOSE t \in tries : \A u \in tries : PlainBefore(t, u))

\* partial_date_re.match(s).groupdict(); a group that took no part is <<>>
partial_date_re_match(s) == PlainFirst(s, PlainTries(s))

\* the alternatives of (circa|c\.?) in the order the engine tries them
CircaPrefixes == << <<"c", "i", "r", "c", "a">>, <<"c", ".">>, <<"c">> >>

PrefixOk(s, pre) ==
    /\ Len(s) >= Len(pre)
    /\ \A k \in 1..Len(pre) : Lower(s[k]) = pre[k]

\* after a prefix that ends before position i: u[1] characters of \s*, u[2]
\* digits of year, then $
CircaRest(s, i) ==
    {u \in (0..SpaceRun(s, i)) \X (1..Len(s)) :
        /\ u[2] <= DigitRun(s, i + u[1])
        /\ AtEnd(s, i + u[1] + u[2])}

\* One way partial_date_re_circa can take the string: alternative t[1] of the
\* prefix, t[2] whitespace characters, t[3] digits of year
CircaTries(s) ==
    UNION {{<<k, u[1], u[2]>> : u \in CircaRest(s, 1 + Len(CircaPrefixes[k]))} :
              k \in {k \in 1..3 : PrefixOk(s, CircaPrefixes[k])}}

CircaBefore(t, u) ==
    \/ t[1] < u[1]
    \/ t[1] = u[1] /\ t[2] > u[2]
    \/ t[1] = u[1] /\ t[2] = u[2] /\ t[3] >= u[3]

CircaGroups(s, t) ==
    [matched |-> TRUE,
     year |-> SubSeq(s, 1 + Len(CircaPrefixes[t[1]]) + t[2],
                        Len(CircaPrefixes[t[1]]) + t[2] + t[3]),
     month |-> <<>>,
     day |-> <<>>]

CircaFirst(s, tries) ==
    IF tries = {} THEN NoMatch
    ELSE CircaGroups(s, CHOOSE t \in tries : \A u \in tries : CircaBefore(t, u))

\* partial_date_re_circa.match(s).groupdict()
partial_date_re_circa_match(s) == CircaFirst(s, CircaTries(s))

-----------------------------------------------------------------------------
(* PartialDate.parse_date *)

Raised(e) == [outcome |-> e, date |-> NoDate, precision |-> -1]

\* datetime.date(year, month, day); a ValueError is reported as `error`
NewDate(y, m, d, precision, error) ==
    IF IsValidDate(y, m, d)
    THEN [outcome |-> "ok", date |-> Date(y, m, d), precision |-> precision]
    ELSE Raised(error)

\* the month group tested before the day group
MatchPrecisionMonthFirst(match_dict) ==
    IF match_dict.month # <<>> THEN MONTH
    ELSE IF match_dict.day # <<>> THEN DAY
    ELSE YEAR

\* DAY if match_dict["day"] else MONTH if match_dict["month"] else YEAR
MatchPrecision(match_dict) ==
    IF match_dict.day # <<>> THEN DAY
    ELSE IF match_dict.month # <<>> THEN MONTH
    ELSE YEAR

\* int(v) if v else 1
IntOr1(v) == IF v # <<>> THEN IntOf(v) ELSE 1

\* parse_date once the two patterns have been tried
ParseMatched(circa, match) ==
    IF circa.matched
    THEN \* datetime.date(...) is called outside the try block
         NewDate(IntOf(circa.year), 1, 1, CIRCA, "ValueError")
    ELSE IF ~match.matched
    THEN \* match is None: AttributeError, caught
         Raised("ValidationError")
    ELSE \* a ValueError of datetime.date(**kw) is caught
         NewDate(IntOf(match.year), IntOr1(match.month), IntOr1(match.day),
                 MatchPrecision(match), "ValidationError")

parse_date(value) ==
    ParseMatched(partial_date_re_circa_match(value), partial_date_re_match(value))

-----------------------------------------------------------------------------
(* Python values handed to the constructor, the setters and the field *)

\* a PartialDate object; NoObj is Python's None where an object is expected
NoObj == [date |-> NoDate, precision |-> -1]

StrVal(s) == [kind |-> "str", str |-> s, date |-> NoDate, pd |-> NoObj]
DateVal(d) == [kind |-> "date", str |-> <<>>, date |-> d, pd |-> NoObj]
PdVal(o) == [kind |-> "pd", str |-> <<>>, date |-> NoDate, pd |-> o]
NoneVal == [kind |-> "none", str |-> <<>>, date |-> NoDate, pd |-> NoObj]
\* the integer 42: neither a string nor a date
IntVal == [kind |-> "int", str |-> <<>>, date |-> NoDate, pd |-> NoObj]

-----------------------------------------------------------------------------
(* class PartialDate *)

\* date.setter
DateSetter(self, value) ==
    IF value.kind # "date"
    THEN [outcome |-> "ValidationError", obj |-> self]
    ELSE [outcome |-> "ok", obj |-> [self EXCEPT !.date = value.date]]

\* a precision setter that stores whatever it is given
PrecisionSetterAsGiven(self, value) == [date |-> self.date, precision |-> value]

\* precision.setter: the dates built by replace() are dropped, _date is not
\* assigned
PrecisionSetter(self, value) ==
    LET precision == IF value \in {YEAR, MONTH, DAY, CIRCA} THEN value ELSE DAY
        dropped == IF precision = MONTH
                   THEN Replace(self.date, self.date.month, 1)
                   ELSE IF precision = YEAR \/ precision = CIRCA
                   THEN Replace(self.date, 1, 1)
                   ELSE self.date
    IN  [date |-> self.date, precision |-> precision]

\* __init__ after the date is set: self.precision = precision
InitPrecision(set, precision) ==
    IF set.outcome # "ok"
    THEN [outcome |-> set.outcome, obj |-> NoObj]
    ELSE [outcome |-> "ok", obj |-> PrecisionSetter(set.obj, precision)]

\* __init__ after a string is parsed: self.date = date
InitDate(date, parsed) ==
    IF parsed.outcome # "ok"
    THEN [outcome |-> parsed.outcome, obj |-> NoObj]
    ELSE InitPrecision(
             DateSetter(NoObj, IF date.kind = "str" THEN DateVal(parsed.date) ELSE date),
             parsed.precision)

\* PartialDate(date, precision)
__init__(date, precision) ==
    InitDate(date,
             IF date.kind = "str"
             THEN parse_date(date.str)
             ELSE [outcome |-> "ok", date |-> NoDate, precision |-> precision])

is_precision_year(self) == self.precision = YEAR
is_precision_month(self) == self.precision = MONTH
is_precision_day(self) == self.precision = DAY
is_precision_circa(self) == self.precision = CIRCA

\* a format() without the circa branch
formatWithoutCirca(self, precision_year, precision_month, precision_day, precision_circa, padYear) ==
    IF self.date = NoDate THEN <<>>
    ELSE Strftime(self.date,
                  IF self.precision = YEAR THEN precision_year
                  ELSE IF self.precision = MONTH THEN precision_month
                  ELSE precision_day,
                  padYear)

\* format(precision_year, precision_month, precision_day, precision_circa)
format(self, precision_year, precision_month, precision_day, precision_circa, padYear) ==
    LET fmt == IF is_precision_year(self) THEN precision_year
               ELSE IF is_precision_month(self) THEN precision_month
               ELSE IF is_precision_circa(self) THEN precision_circa
               ELSE precision_day
    IN  IF self.date = NoDate THEN <<>> ELSE Strftime(self.date, fmt, padYear)

\* the default templates of format()
FmtYear == <<"%", "Y">>
FmtMonth == <<"%", "Y", "-", "%", "m">>
FmtDay == <<"%", "Y", "-", "%", "m", "-", "%", "d">>
FmtCirca == <<"c", ".", " ", "%", "Y">>

__repr__(self, padYear) ==
    IF self.date = NoDate THEN <<>>
    ELSE format(self, FmtYear, FmtMonth, FmtDay, FmtCirca, padYear)

__eq__(self, other) ==
    self.date = other.date /\ self.precision = other.precision

\* >= with `or` in place of `and`
__ge__Either(self, other) ==
    DateGe(self.date, other.date) \/ self.precision >= other.precision

__ge__(self, other) ==
    DateGe(self.date, other.date) /\ self.precision >= other.precision

__gt__(self, other) == __ge__(self, other) /\ ~__eq__(self, other)

-----------------------------------------------------------------------------
(* class PartialDateField *)

DateTime(y, m, d, s) ==
    [year |-> y, month |-> m, day |-> d, hour |-> 0, minute |-> 0, second |-> s]

\* NULL in the column
Null == DateTime(0, 0, 0, 0)

\* datetime.date()
DatePart(value) == Date(value.year, value.month, value.day)

to_python(value) ==
    IF value.kind = "none" THEN [outcome |-> "ok", obj |-> NoObj]
    ELSE IF value.kind = "pd" THEN [outcome |-> "ok", obj |-> value.pd]
    ELSE IF value.kind = "str" THEN __init__(value, DAY)
    ELSE [outcome |-> "ValidationError", obj |-> NoObj]

\* datetime.datetime(date.year, date.month, date.day, second=precision)
PrepValue(partial_date) ==
    IF partial_date.outcome # "ok"
    THEN [outcome |-> partial_date.outcome, value |-> Null]
    ELSE IF partial_date.obj.precision \notin 0..59
    THEN [outcome |-> "ValueError", value |-> Null]
    ELSE [outcome |-> "ok",
          value |-> DateTime(partial_date.obj.date.year,
                             partial_date.obj.date.month,
                             partial_date.obj.date.day,
                             partial_date.obj.precision)]

get_prep_value(value) ==
    IF value.kind = "none" \/ (value.kind = "str" /\ value.str = <<>>)
    THEN [outcome |-> "ok", value |-> Null]
    ELSE PrepValue(to_python(value))

\* a reader that takes the precision from the minutes
from_db_value_minute(value) ==
    IF value = Null THEN [outcome |-> "ok", obj |-> NoObj]
    ELSE __init__(DateVal(DatePart(value)), value.minute)

from_db_value(value) ==
    IF value = Null THEN [outcome |-> "ok", obj |-> NoObj]
    ELSE __init__(DateVal(DatePart(value)), value.second)

-----------------------------------------------------------------------------
(* Inputs *)

\* precision arguments: the four tags and values outside them
PrecisionInputs == (-1..MaxPrecisionInput) \cup {99}

\* dates handed to the constructor and to the date setter
DateInputs == {Date(y, md[1], md[2]) : y \in {850, 2020}, md \in {<<1, 1>>, <<6, 15>>}}

\* dates of the objects that are compared
OrderDates == {Date(y, md[1], md[2]) : y \in {2019, 2020}, md \in {<<1, 1>>, <<6, 15>>}}

\* a number as it is written in a string
Piece(v, t) == [val |-> v, text |-> t]
NoPiece == Piece(0, <<>>)

Zeros(k) == [i \in 1..k |-> "0"]
Spaces(k) == [i \in 1..k |-> " "]

YearPieces ==
    {Piece(y, Zeros(k) \o ToDigits(y)) :
        y \in {0, 850, 2019, 2020, 10000}, k \in 0..MaxLeadingZeros}

MonthPieces ==
    {Piece(1, <<"1">>), Piece(2, <<"0", "2">>), Piece(6, <<"0", "6">>),
     Piece(13, <<"1", "3">>)}

DayPieces ==
    {Piece(1, <<"1">>), Piece(15, <<"1", "5">>), Piece(29, <<"2", "9">>),
     Piece(32, <<"3", "2">>)}

CircaWords ==
    {<<"c">>, <<"c", ".">>, <<"C", ".">>, <<"c", "i", "r", "c", "a">>,
     <<"C", "i", "r", "c", "A">>}

\* a string together with the parts it was written from
Input(shape, circa, y, m, d, tail) ==
    [shape |-> shape, circa |-> circa, year |-> y, month |-> m, day |-> d,
     text |-> circa \o y.text
              \o (IF m = NoPiece THEN <<>> ELSE <<"-">> \o m.text)
              \o (IF d = NoPiece THEN <<>> ELSE <<"-">> \o d.text)
              \o tail]

NoInput == Input("none", <<>>, NoPiece, NoPiece, NoPiece, <<>>)

\* YYYY, YYYY-M, YYYY-MM-D, ...
PlainInputs ==
    {Input("plain", <<>>, y, NoPiece, NoPiece, <<>>) : y \in YearPieces}
    \cup {Input("plain", <<>>, y, m, NoPiece, <<>>) : y \in YearPieces, m \in MonthPieces}
    \cup {Input("plain", <<>>, y, m, d, <<>>) :
             y \in YearPieces, m \in MonthPieces, d \in DayPieces}

\* circa YYYY, c YYYY, c. YYYY, ...
CircaInputs ==
    {Input("circa", w \o Spaces(k), y, NoPiece, NoPiece, <<>>) :
        w \in CircaWords, k \in 0..MaxSpaces, y \in YearPieces}

\* strings outside the wire format
OtherInputs ==
    {Input("junk", <<>>, NoPiece, NoPiece, NoPiece, <<"n", "o", "t", "-", "a">>),
     Input("junk", <<>>, NoPiece, NoPiece, NoPiece, <<"2", "0", "2", "0", "-">>),
     Input("junk", <<>>, NoPiece, NoPiece, NoPiece,
           <<"2", "0", "2", "0", "-", "1", "2", "3">>),
     Input("junk", <<>>, NoPiece, NoPiece, NoPiece,
           <<"2", "0", "2", "0", "-", "-", "1", "5">>),
     Input("junk", <<>>, NoPiece, NoPiece, NoPiece, <<" ", "2", "0", "2", "0">>),
     Input("junk", <<>>, NoPiece, NoPiece, NoPiece, <<"c", "a", " ", "2", "0", "2", "0">>),
     Input("junk", <<"c", ".", " ">>, Piece(2020, ToDigits(2020)),
           Piece(6, <<"0", "6">>), NoPiece, <<>>),
     Input("newline", <<>>, Piece(2020, ToDigits(2020)), NoPiece, NoPiece, <<"\n">>),
     Input("newline", <<>>, Piece(2020, ToDigits(2020)), Piece(6, <<"0", "6">>),
           NoPiece, <<"\n">>),
     Input("newline", <<"c">>, Piece(2020, ToDigits(2020)), NoPiece, NoPiece, <<"\n">>),
     Input("junk", <<>>, Piece(2020, ToDigits(2020)), NoPiece, NoPiece, <<"\n", "\n">>)}

StringInputs == PlainInputs \cup CircaInputs \cup OtherInputs

\* the strings used where an object is needed rather than a parse
\* the strings used where an object is needed rather than a parse:
\* "2020", "2020-06", "2020-06-15", "c.2020", "0", "c.0"
SmallInputs ==
    {i \in PlainInputs \cup CircaInputs :
        /\ i.year.text \in {ToDigits(2020), ToDigits(0)}
        /\ i.circa \in {<<>>, <<"c", ".">>}
        /\ \/ i.month.val = 0
           \/ i.year.val = 2020 /\ i.month.val = 6 /\ i.day.val \in {0, 15}}

\* "2020", "2020-06-15", "c.2020"
OrderInputs ==
    {i \in SmallInputs : i.year.val = 2020 /\ (i.month.val = 0 \/ i.day.val = 15)}

\* "2020", "2020-06", "2020-06-15", "2020-1-1"
SecondInputs ==
    {i \in PlainInputs :
        /\ i.year.text = ToDigits(2020)
        /\ \/ i.month.val = 0
           \/ i.month.val = 6 /\ i.day.val \in {0, 15}
           \/ i.month.val = 1 /\ i.day.val = 1}

Slots == {"a", "b", "c"}

Obj(x) == CASE x = "a" -> a [] x = "b" -> b [] x = "c" -> c

Bind(x, o) ==
    /\ a' = IF x = "a" THEN o ELSE a
    /\ b' = IF x = "b" THEN o ELSE b
    /\ c' = IF x = "c" THEN o ELSE c

NoArg == [first |-> NoInput, second |-> NoInput, precision |-> -2]

NoRet ==
    [date |-> NoDate, precision |-> -1, text |-> <<>>,
     ge |-> <<>>, gt |-> <<>>, eq |-> <<>>]

\* the results of ==, >= and > on every pair of the objects bound to S
Compared(S) ==
    [NoRet EXCEPT
        !.ge = [x \in S |-> [y \in S |-> __ge__(Obj(x), Obj(y))]],
        !.gt = [x \in S |-> [y \in S |-> __gt__(Obj(x), Obj(y))]],
        !.eq = [x \in S |-> [y \in S |-> __eq__(Obj(x), Obj(y))]]]

-----------------------------------------------------------------------------
(* Spec: the life of one object `a` and of the column `db` *)

Init ==
    /\ a = NoObj /\ b = NoObj /\ c = NoObj
    /\ db = Null
    /\ op = "start" /\ outcome = "ok"
    /\ arg = NoArg /\ ret = NoRet

\* a = PartialDate(d, p)
NewFromDate(d, p) ==
    \E r \in {__init__(DateVal(d), p)} :
        /\ a' = r.obj
        /\ op' = "init_date" /\ outcome' = r.outcome
        /\ arg' = [NoArg EXCEPT !.precision = p]
        /\ ret' = NoRet
        /\ UNCHANGED <<b, c, db>>

\* a = PartialDate("...")
NewFromString(i) ==
    \E r \in {__init__(StrVal(i.text), DAY)} :
        /\ a' = IF r.outcome = "ok" THEN r.obj ELSE a
        /\ op' = "init_str" /\ outcome' = r.outcome
        /\ arg' = NoArg /\ ret' = NoRet
        /\ UNCHANGED <<b, c, db>>

\* a = PartialDate(42, p)
NewFromOther(p) ==
    \E r \in {__init__(IntVal, p)} :
        /\ a' = IF r.outcome = "ok" THEN r.obj ELSE a
        /\ op' = "init_other" /\ outcome' = r.outcome
        /\ arg' = [NoArg EXCEPT !.precision = p]
        /\ ret' = NoRet
        /\ UNCHANGED <<b, c, db>>

\* a.date = v
SetDate(v) ==
    /\ a # NoObj
    /\ \E r \in {DateSetter(a, v)} :
           /\ a' = r.obj
           /\ op' = "set_date" /\ outcome' = r.outcome
    /\ arg' = NoArg /\ ret' = NoRet
    /\ UNCHANGED <<b, c, db>>

\* a.precision = p
SetPrecision(p) ==
    /\ a # NoObj
    /\ a' = PrecisionSetter(a, p)
    /\ op' = "set_precision" /\ outcome' = "ok"
    /\ arg' = [NoArg EXCEPT !.precision = p]
    /\ ret' = NoRet
    /\ UNCHANGED <<b, c, db>>

\* db = field.get_prep_value(a)
Save ==
    \E r \in {get_prep_value(IF a = NoObj THEN NoneVal ELSE PdVal(a))} :
        /\ db' = IF r.outcome = "ok" THEN r.value ELSE db
        /\ op' = "get_prep_value" /\ outcome' = r.outcome
        /\ arg' = NoArg /\ ret' = NoRet
        /\ UNCHANGED <<a, b, c>>

\* db = field.get_prep_value("...")
SaveString(s) ==
    \E r \in {get_prep_value(StrVal(s))} :
        /\ db' = IF r.outcome = "ok" THEN r.value ELSE db
        /\ op' = "get_prep_value_str" /\ outcome' = r.outcome
        /\ arg' = NoArg /\ ret' = NoRet
        /\ UNCHANGED <<a, b, c>>

\* a = field.from_db_value(db)
Load ==
    \E r \in {from_db_value(db)} :
        /\ a' = r.obj
        /\ op' = "from_db_value" /\ outcome' = r.outcome
        /\ arg' = NoArg /\ ret' = NoRet
        /\ UNCHANGED <<b, c, db>>

\* PartialDate(repr(a)): the new object is kept in ret
Reparse(padYear) ==
    /\ a # NoObj
    /\ \E text \in {__repr__(a, padYear)} :
       \E r \in {__init__(StrVal(text), DAY)} :
           /\ op' = "repr_init" /\ outcome' = r.outcome
           /\ ret' = [NoRet EXCEPT !.date = r.obj.date,
                                   !.precision = r.obj.precision,
                                   !.text = text]
    /\ arg' = NoArg
    /\ UNCHANGED <<a, b, c, db>>

Next ==
    \/ \E d \in DateInputs, p \in PrecisionInputs : NewFromDate(d, p)
    \/ \E i \in SmallInputs : NewFromString(i)
    \/ \E p \in PrecisionInputs : NewFromOther(p)
    \/ \E v \in {DateVal(d) : d \in DateInputs} \cup {IntVal} : SetDate(v)
    \/ \E p \in PrecisionInputs : SetPrecision(p)
    \/ Save
    \/ \E s \in {i.text : i \in OrderInputs} \cup {<<>>, <<"0">>} : SaveString(s)
    \/ Load
    \/ \E padYear \in BOOLEAN : Reparse(padYear)

Spec == Init /\ [][Next]_vars

-----------------------------------------------------------------------------
(* SpecOrder: three objects and their comparisons *)

\* x = PartialDate(d, p)
OrderNewFromDate(x, d, p) ==
    \E r \in {__init__(DateVal(d), p)} :
        /\ Bind(x, r.obj)
        /\ op' = "init" /\ outcome' = r.outcome
        /\ UNCHANGED <<db, arg>>
        /\ ret' = NoRet

\* x = PartialDate("...")
OrderNewFromString(x, i) ==
    \E r \in {__init__(StrVal(i.text), DAY)} :
        /\ Bind(x, IF r.outcome = "ok" THEN r.obj ELSE Obj(x))
        /\ op' = "init" /\ outcome' = r.outcome
        /\ UNCHANGED <<db, arg>>
        /\ ret' = NoRet

\* x == y, x >= y, x > y for every pair
OrderCompare ==
    /\ \A x \in Slots : Obj(x) # NoObj
    /\ op' = "compare" /\ outcome' = "ok"
    /\ ret' = Compared(Slots)
    /\ UNCHANGED <<a, b, c, db, arg>>

NextOrder ==
    \/ \E x \in Slots, d \in OrderDates, p \in PrecisionInputs : OrderNewFromDate(x, d, p)
    \/ \E x \in Slots, i \in OrderInputs : OrderNewFromString(x, i)
    \/ OrderCompare

SpecOrder == Init /\ [][NextOrder]_vars

-----------------------------------------------------------------------------
(* SpecParse: strings parsed, built into objects, formatted and compared *)

InitParse ==
    /\ a = NoObj /\ b = NoObj /\ c = NoObj
    /\ db = Null
    /\ op = "start" /\ outcome = "ok"
    /\ \E i \in StringInputs, j \in SecondInputs :
          arg = [NoArg EXCEPT !.first = i, !.second = j]
    /\ ret = NoRet

\* PartialDate.parse_date(arg.first)
ParseDate ==
    \E r \in {parse_date(arg.first.text)} :
        /\ op' = "parse_date" /\ outcome' = r.outcome
        /\ ret' = [NoRet EXCEPT !.date = r.date, !.precision = r.precision]
        /\ UNCHANGED <<a, b, c, db, arg>>

\* a = PartialDate(arg.first); repr(a)
ParseNew(padYear) ==
    \E r \in {__init__(StrVal(arg.first.text), DAY)} :
        /\ a' = IF r.outcome = "ok" THEN r.obj ELSE a
        /\ op' = "init_str" /\ outcome' = r.outcome
        /\ ret' = [NoRet EXCEPT !.text = __repr__(r.obj, padYear)]
        /\ UNCHANGED <<b, c, db, arg>>

\* b = PartialDate(arg.second)
ParseNewSecond ==
    \E r \in {__init__(StrVal(arg.second.text), DAY)} :
        /\ b' = IF r.outcome = "ok" THEN r.obj ELSE b
        /\ op' = "init_second" /\ outcome' = r.outcome
        /\ ret' = NoRet
        /\ UNCHANGED <<a, c, db, arg>>

\* a == b, a >= b, a > b, and the other way round
ParseCompare ==
    /\ a # NoObj /\ b # NoObj
    /\ op' = "compare" /\ outcome' = "ok"
    /\ ret' = Compared({"a", "b"})
    /\ UNCHANGED <<a, b, c, db, arg>>

NextParse ==
    \/ ParseDate
    \/ \E padYear \in BOOLEAN : ParseNew(padYear)
    \/ ParseNewSecond
    \/ ParseCompare

SpecParse == InitParse /\ [][NextParse]_vars

-----------------------------------------------------------------------------
(* Properties *)

RetObj == [date |-> ret.date, precision |-> ret.precision]

\* month and day of a written string, 1 where the segment is absent
MonthOf(i) == IF i.month = NoPiece THEN 1 ELSE i.month.val
DayOf(i) == IF i.day = NoPiece THEN 1 ELSE i.day.val

\* a string of the wire format whose numbers form a calendar date
WireValid(i) ==
    /\ i.shape \in {"plain", "circa"}
    /\ IsValidDate(i.year.val, MonthOf(i), DayOf(i))

Pad2(t) == IF Len(t) = 1 THEN <<"0">> \o t ELSE t

\* the canonical form of a wire-format string: the year as written, month and
\* day padded to two digits, any circa prefix written "c. "
Canonical(i) ==
    (IF i.shape = "circa" THEN <<"c", ".", " ">> ELSE <<>>)
    \o i.year.text
    \o (IF i.month = NoPiece THEN <<>> ELSE <<"-">> \o Pad2(i.month.text))
    \o (IF i.day = NoPiece THEN <<>> ELSE <<"-">> \o Pad2(i.day.text))

\* the year is written with four digits, the first of them not 0
FourDigitYear(i) == Len(i.year.text) = 4 /\ i.year.text[1] # "0"

\* C1 (SpecOrder): a >= b holds exactly when a.date is later than b.date, or
\* the dates are equal and a.precision >= b.precision; a > b holds exactly
\* when a >= b and a is not equal to b.
C1_DateFirstThenPrecision ==
    op = "compare" =>
        \A x \in Slots, y \in Slots :
            /\ ret.ge[x][y] =
                  (\/ DateGt(Obj(x).date, Obj(y).date)
                   \/ /\ Obj(x).date = Obj(y).date
                      /\ Obj(x).precision >= Obj(y).precision)
            /\ ret.gt[x][y] = (ret.ge[x][y] /\ ~ret.eq[x][y])

\* C2 (Spec): after construction from a date and a precision, and after an
\* assignment to precision, the day of the stored date is 1 if the precision
\* is MONTH, and month and day are 1 if it is YEAR or CIRCA.
C2_DateNormalized ==
    op \in {"init_date", "set_precision"} =>
        /\ a.precision = MONTH => a.date.day = 1
        /\ a.precision \in {YEAR, CIRCA} => a.date.month = 1 /\ a.date.day = 1

\* C3 (Spec): PartialDate(repr(p)) succeeds and is equal to p.
C3_ReprRoundTrip ==
    op = "repr_init" => outcome = "ok" /\ __eq__(RetObj, a)

\* C4 (SpecParse): parse_date(x) and PartialDate(x) either succeed or raise a
\* validation error, whatever the string.
C4_OnlyValidationErrors ==
    op \in {"parse_date", "init_str", "init_second"} =>
        outcome \in {"ok", "ValidationError"}

\* C5 as stated (SpecParse): for every valid wire-format string the default
\* format of the parsed value is the canonical form of the string.
C5_RoundTripAnyYear ==
    op = "init_str" /\ WireValid(arg.first) =>
        outcome = "ok" /\ ret.text = Canonical(arg.first)

\* C5 as amended (SpecParse): for every valid wire-format string whose year is
\* written with four digits, the first not 0, the default format of the
\* parsed value is the canonical form of the string.
C5_RoundTripFourDigitYear ==
    op = "init_str" /\ WireValid(arg.first) /\ FourDigitYear(arg.first) =>
        outcome = "ok" /\ ret.text = Canonical(arg.first)

\* "2020-1" was parsed and formatted back as "2020-01"
C5_Witness ==
    /\ op = "init_str"
    /\ arg.first.text = <<"2", "0", "2", "0", "-", "1">>
    /\ ret.text = <<"2", "0", "2", "0", "-", "0", "1">>

\* a was parsed from a circa string and b from a full date of the same year
CircaAndDayOfSameYear ==
    /\ op = "compare"
    /\ arg.first.shape = "circa"
    /\ arg.second.day # NoPiece
    /\ arg.first.year.val = arg.second.year.val

\* C6 as stated (SpecParse): for a parsed from "circa Y" and b parsed from a
\* full date of the same year, a >= b is true.
C6_CircaGeDayOfSameYear == CircaAndDayOfSameYear => ret.ge["a"]["b"]

\* C6 as amended (SpecParse): for a parsed from "circa Y" and b parsed from a
\* full date of the same year, a >= b is true exactly when the full date is
\* the first of January.
C6_CircaGeFirstOfJanuaryOnly ==
    CircaAndDayOfSameYear =>
        ret.ge["a"]["b"] = (arg.second.month.val = 1 /\ arg.second.day.val = 1)

\* a circa string of 2020 was compared with "2020-06-15" and is not >= it
C6_Witness ==
    /\ CircaAndDayOfSameYear
    /\ arg.second.text = <<"2", "0", "2", "0", "-", "0", "6", "-", "1", "5">>
    /\ b = [date |-> Date(2020, 6, 15), precision |-> DAY]
    /\ a = [date |-> Date(2020, 1, 1), precision |-> CIRCA]
    /\ ~ret.ge["a"]["b"]

\* C7 (Spec): the stored precision is always one of YEAR, MONTH, DAY, CIRCA;
\* constructing with or assigning a value outside the four raises nothing and
\* stores DAY, and a value inside the four is stored as given.
C7_PrecisionInRange ==
    /\ a # NoObj => a.precision \in {YEAR, MONTH, DAY, CIRCA}
    /\ op \in {"init_date", "set_precision"} =>
          /\ outcome = "ok"
          /\ a.precision = IF arg.precision \in {YEAR, MONTH, DAY, CIRCA}
                           THEN arg.precision ELSE DAY

\* 99 was assigned to the precision of an object and DAY is stored
C7_Witness ==
    op = "set_precision" /\ arg.precision = 99 /\ a.precision = DAY

\* C8 (Spec): get_prep_value(p) is a date-time whose date part is p.date and
\* whose seconds are p.precision, from_db_value of it is equal to p, and
\* writing back what was read gives the stored value again.
C8_StorageReversible ==
    /\ op = "get_prep_value" /\ a # NoObj =>
          /\ outcome = "ok"
          /\ DatePart(db) = a.date
          /\ db.second = a.precision
          /\ from_db_value(db).outcome = "ok"
          /\ __eq__(from_db_value(db).obj, a)
    /\ op = "from_db_value" /\ db # Null =>
          /\ outcome = "ok"
          /\ a.date = DatePart(db)
          /\ a.precision = db.second
          /\ get_prep_value(PdVal(a)) = [outcome |-> "ok", value |-> db]

\* a CIRCA value with a date that is not the first of January was read back
C8_Witness ==
    /\ op = "from_db_value"
    /\ db = DateTime(2020, 6, 15, CIRCA)
    /\ a = [date |-> Date(2020, 6, 15), precision |-> CIRCA]

\* C9 (SpecParse): parse_date gives (Y-01-01, CIRCA) for a circa string and,
\* for a plain string, the date of its year, month (1 if absent) and day (1
\* if absent) with precision DAY if a day is written, else MONTH if a month
\* is written, else YEAR; "Y-N" is read as year and month.
C9_ParseResult ==
    op = "parse_date" /\ WireValid(arg.first) =>
        /\ outcome = "ok"
        /\ ret.date = Date(arg.first.year.val, MonthOf(arg.first), DayOf(arg.first))
        /\ ret.precision =
              IF arg.first.shape = "circa" THEN CIRCA
              ELSE IF arg.first.day # NoPiece THEN DAY
              ELSE IF arg.first.month # NoPiece THEN MONTH
              ELSE YEAR

\* "2020-02-29" was parsed as a day of February
C9_Witness ==
    /\ op = "parse_date"
    /\ arg.first.text = <<"2", "0", "2", "0", "-", "0", "2", "-", "2", "9">>
    /\ ret.date = Date(2020, 2, 29)
    /\ ret.precision = DAY

\* C10 (SpecOrder): >= is reflexive, antisymmetric with respect to == and
\* transitive, == implies >=, and > is irreflexive and asymmetric.
C10_PartialOrder ==
    op = "compare" =>
        \A x \in Slots, y \in Slots, z \in Slots :
            /\ ret.ge[x][x]
            /\ ret.eq[x][y] => ret.ge[x][y]
            /\ ret.ge[x][y] /\ ret.ge[y][x] => ret.eq[x][y]
            /\ ret.ge[x][y] /\ ret.ge[y][z] => ret.ge[x][z]
            /\ ~ret.gt[x][x]
            /\ ret.gt[x][y] => ~ret.gt[y][x]

\* three objects in a strict chain a > b > c that differ in date and in precision
C10_Witness ==
    /\ op = "compare"
    /\ ret.gt["a"]["b"] /\ ret.gt["b"]["c"] /\ ret.gt["a"]["c"]
    /\ a.date # b.date /\ b.precision # c.precision

====
